---- MODULE Spec2Model ----
(***************************************************************************)
(* A model of the podcaster Telegram bot.  The repository holds the        *)
(* dispatcher twice: as package-level functions in main.go and as the Bot  *)
(* type of internal/bot/bot.go (run by the second main package).  Both are *)
(* modelled, function by function, as operators over a machine record m:   *)
(*   m.states  the session map (userStates / b.states), Nil for no entry   *)
(*   m.mu      the sync.Mutex guarding it (TRUE: locked)                   *)
(*   m.pc      where the single update-loop goroutine is                   *)
(*   m.ev      the update being handled (the handler's locals)             *)
(*   m.out     the operations sent to Telegram while handling m.ev         *)
(*   m.calls   the OpenAI requests issued while handling m.ev              *)
(*   m.files   the users whose "<userID>.mp3" exists on disk               *)
(* Go strings are TLA+ strings; an OpenAI completion is a sequence of      *)
(* string pieces (its concatenation is the text), so that strings.Split    *)
(* is computed and not assumed.                                            *)
(* Beside the program's state the model records, of the update being       *)
(* handled, the session before it (pre) and the results the calls gave     *)
(* (res); and, in the runs that ask for them (scope), the button data each *)
(* user was offered (offered) and the Bot fed the same updates and results *)
(* as main.go (twin).                                                      *)
(***************************************************************************)
EXTENDS Integers, Sequences, FiniteSets, TLC

VARIABLES impl, states, mu, pc, ev, out, calls, files, pre, res,
          scope, offered, twin

vars == <<impl, states, mu, pc, ev, out, calls, files, pre, res, scope, offered, twin>>

(***************************************************************************)
(* Inputs of the model.                                                    *)
(***************************************************************************)
\* chat ids of the users talking to the bot
Users == {1, 2}

\* callback data a client can deliver: the offered labels and, since
\* CallbackQuery.Data is an unvalidated string, the empty string
Labels == {"", "Health", "Sleep"}

\* message texts: the two commands and free-form text
Texts == {"/new", "/text", "hello"}

\* callback query identifiers
QueryIDs == {"q1"}

\* scripts the text service can return with a nil error
Scripts == {"", "script", "long script"}

\* scripts around the cut of handleTextRequest, for the runs about lengths
LongScripts == {"3999 bytes", "4000 bytes", "4096 bytes", "4097 bytes", "9000 bytes"}

\* the most comma-separated segments in a completion for the topic prompt
MaxSegments == 5

SegmentNames == <<"Sleep", "Diet", "Yoga", "Gym", "Tea", "Run", "Nap", "Tai chi">>

\* a completion of n segments, as its pieces: "Sleep", ",", "Diet", ...
RECURSIVE Reply(_)
Reply(n) ==
    IF n = 1 THEN <<SegmentNames[1]>>
    ELSE Reply(n - 1) \o <<",", SegmentNames[((n - 1) % Len(SegmentNames)) + 1]>>

\* completions the text service can return for the topic prompt
TopicReplies == { Reply(n) : n \in 1..MaxSegments } \cup { << >>, <<"Sleep", ",", ",", "Diet">> }

\* outcomes of CreateSpeech, io.ReadAll and os.WriteFile
SpeechOutcomes == {"speech_err", "read_err", "open_err", "write_err", "ok"}

\* len() of the strings whose length the program looks at
TextLen(s) ==
    CASE s = "" -> 0
      [] s = "script" -> 1800
      [] s = "long script" -> 4001
      [] s = "3999 bytes" -> 3999
      [] s = "4000 bytes" -> 4000
      [] s = "4096 bytes" -> 4096
      [] s = "4097 bytes" -> 4097
      [] s = "9000 bytes" -> 9000
      [] s = "\n... [truncated]" -> 16

(***************************************************************************)
(* Types of the program.                                                   *)
(***************************************************************************)
StateInitial == "initial"
StateCategory == "category"
StateTopic == "topic"

\* &UserState{WaitingFor: StateInitial}
NewUserState ==
    [Category |-> "", Topic |-> "", WaitingFor |-> StateInitial, ScriptText |-> ""]

\* the nil *UserState a map lookup yields for a missing key
Nil == [nil |-> TRUE]

\* a Go string value sent as a message text: s, or s[:keep] + tail
Str(s) == [base |-> s, cut |-> FALSE, keep |-> 0, tail |-> ""]

NoRows == << >>

\* tgbotapi.NewMessage(chatID, text), with its optional ReplyMarkup rows
NewMessage(chatID, text, rows) ==
    [op |-> "message", chat |-> chatID, text |-> text, rows |-> rows, id |-> ""]

\* tgbotapi.NewAudio(chatID, tgbotapi.FilePath(path)) with the caption
NewAudio(chatID) ==
    [op |-> "audio", chat |-> chatID, text |-> Str("Here's your podcast, enjoy!"),
     rows |-> NoRows, id |-> ""]

\* tgbotapi.NewCallback(id, "")
NewCallback(id) ==
    [op |-> "callback", chat |-> 0, text |-> Str(""), rows |-> NoRows, id |-> id]

NoEvent == [kind |-> "none", user |-> 0, text |-> "", data |-> "", id |-> ""]

(***************************************************************************)
(* Sequential execution: a statement acts only while the goroutine runs;   *)
(* after a panic or a Lock that cannot be granted nothing more executes.   *)
(***************************************************************************)
Running(m) == m.pc = "run"

\* sync.Mutex.Lock: not reentrant; the only goroutine that could unlock
\* is the caller, so a Lock on a held mutex never returns
Lock(m) ==
    IF ~Running(m) THEN m
    ELSE IF m.mu THEN [m EXCEPT !.pc = "blocked"]
    ELSE [m EXCEPT !.mu = TRUE]

Unlock(m) == IF Running(m) THEN [m EXCEPT !.mu = FALSE] ELSE m

\* a runtime panic (nil dereference, slice bounds): nothing recovers it
Panic(m) == IF Running(m) THEN [m EXCEPT !.pc = "panic"] ELSE m

\* bot.Send(c): the result and the error are dropped by every caller
Send(m, c) == IF Running(m) THEN [m EXCEPT !.out = Append(@, c)] ELSE m

\* a request handed to an OpenAI client method
Request(m, call) == IF Running(m) THEN [m EXCEPT !.calls = Append(@, call)] ELSE m

\* the goroutine waits at label for a blocking external call to return
Await(m, label) == IF Running(m) THEN [m EXCEPT !.pc = label] ELSE m

\* the external call returned: the goroutine runs on
Resume(m) == [m EXCEPT !.pc = "run"]

\* the handler returns to the update loop
Return(m) == IF Running(m) THEN [m EXCEPT !.pc = "returned"] ELSE m

\* a write to the session of userID through the map (or a pointer to it)
SetField(m, userID, f, v) ==
    IF Running(m) THEN [m EXCEPT !.states[userID][f] = v] ELSE m


\* os.WriteFile created (or truncated) "<userID>.mp3"
CreateFile(m, userID) ==
    IF Running(m) THEN [m EXCEPT !.files = @ \cup {userID}] ELSE m

\* a cleanup that removes every audio file, not only the caller's
RemoveFile_everyFile(m, userID) ==
    IF Running(m) THEN [m EXCEPT !.files = {}] ELSE m

\* os.Remove("<userID>.mp3")
RemoveFile(m, userID) ==
    IF Running(m) THEN [m EXCEPT !.files = @ \ {userID}] ELSE m

(***************************************************************************)
(* Helpers shared by the two packages (each defines its own copy).         *)
(***************************************************************************)
\* strings.Split(input, sep) on a text given as pieces: n separators
\* give n+1 segments, empty ones included
RECURSIVE Split(_, _)
Split(input, sep) ==
    IF input = << >> THEN <<"">>
    ELSE LET rest == Split(Tail(input), sep)
         IN IF Head(input) = sep THEN <<"">> \o rest
            ELSE <<Head(input) \o Head(rest)>> \o Tail(rest)

splitTopics(input) == Split(input, ",")

\* tgbotapi.NewInlineKeyboardButtonData(text, data)
NewInlineKeyboardButtonData(text, data) == [text |-> text, data |-> data]

\* the loop "for _, x := range xs { buttons = append(buttons, ...(x, x)) }"
Buttons(xs) == [i \in 1..Len(xs) |-> NewInlineKeyboardButtonData(xs[i], xs[i])]

\* cap(buttons) after n appends to a nil slice of 72-byte buttons
\* (runtime growslice: 1, 2, 4, 8, ...)
RECURSIVE Cap(_)
Cap(n) == IF n <= 2 THEN n ELSE LET c == Cap(n - 1) IN IF n <= c THEN c ELSE 2 * c

categories == <<"Auto", "Health", "Travel", "ML", "Media">>

maxLength == 4000

truncationMarker == "\n... [truncated]"

\* a cut that also takes a script of exactly maxLength bytes
ScriptMessageText_cutsAtLimit(script) ==
    IF TextLen(script) >= maxLength
    THEN [base |-> script, cut |-> TRUE, keep |-> maxLength, tail |-> truncationMarker]
    ELSE Str(script)

\* the text handleTextRequest sends for a stored script
ScriptMessageText(script) ==
    IF TextLen(script) > maxLength
    THEN [base |-> script, cut |-> TRUE, keep |-> maxLength, tail |-> truncationMarker]
    ELSE Str(script)

\* len() of a message text
StrLen(x) == IF x.cut THEN x.keep + TextLen(x.tail) ELSE TextLen(x.base)

topicsPrompt(category) == [kind |-> "topics", topic |-> "", category |-> category]

scriptPrompt(topic, category) == [kind |-> "script", topic |-> topic, category |-> category]

\* openai.ChatCompletionRequest with one user message
ChatCompletionRequest(prompt) == [svc |-> "chat", prompt |-> prompt, input |-> ""]

\* openai.CreateSpeechRequest{Input: text}
CreateSpeechRequest(text) ==
    [svc |-> "speech", prompt |-> [kind |-> "", topic |-> "", category |-> ""], input |-> text]

(***************************************************************************)
(* internal/bot/bot.go: the Bot type.                                      *)
(***************************************************************************)
Bot_getState(m, userID) ==
    LET l == Lock(m)
        c == IF Running(l) /\ l.states[userID] = Nil
             THEN [l EXCEPT !.states[userID] = NewUserState]
             ELSE l
    IN Unlock(c)

Bot_resetState(m, userID) ==
    LET l == Lock(m)
        c == IF Running(l) THEN [l EXCEPT !.states[userID] = NewUserState] ELSE l
    IN Unlock(c)

Bot_sendCategories(m, userID) ==
    LET msg == NewMessage(userID, Str("Choose podcast category:"), <<Buttons(categories)>>)
        w == SetField(Lock(m), userID, "WaitingFor", StateCategory)
    IN Send(Unlock(w), msg)

Bot_sendError(m, userID) ==
    LET msg == NewMessage(userID, Str("Error generating content. Please try again."), NoRows)
    IN Bot_sendCategories(Send(m, msg), userID)

\* buttons[:3] and buttons[3:]: a slice bound above cap(buttons) panics
Bot_sendTopics(m, userID, topics) ==
    LET buttons == Buttons(topics) IN
    IF Cap(Len(buttons)) < 3 THEN Panic(m)
    ELSE Send(m, NewMessage(userID, Str("Choose a specific topic:"),
                            << SubSeq(buttons, 1, 3), SubSeq(buttons, 4, Len(buttons)) >>))

\* the "no script" branch without its return: the empty script follows
Bot_handleTextRequest_fallsThrough(m, userID) ==
    LET s == Bot_getState(m, userID)
        n == IF Running(s) /\ s.states[userID].ScriptText = ""
             THEN Send(s, NewMessage(userID,
                          Str("No script available. Please create a podcast first!"), NoRows))
             ELSE s
    IN IF ~Running(n) THEN n
       ELSE Send(n, NewMessage(userID, ScriptMessageText(n.states[userID].ScriptText), NoRows))

Bot_handleTextRequest(m, userID) ==
    LET s == Bot_getState(m, userID) IN
    IF ~Running(s) THEN s
    ELSE IF s.states[userID].ScriptText = ""
    THEN Send(s, NewMessage(userID,
                 Str("No script available. Please create a podcast first!"), NoRows))
    ELSE Send(s, NewMessage(userID, ScriptMessageText(s.states[userID].ScriptText), NoRows))

\* free text answered with the category menu whatever the phase
Bot_handleMessage_alwaysOffers(m) ==
    LET userID == m.ev.user
        s == Bot_getState(m, userID)
    IN IF ~Running(s) THEN s
       ELSE IF m.ev.text = "/new"
       THEN Return(Bot_sendCategories(Bot_resetState(s, userID), userID))
       ELSE IF m.ev.text = "/text"
       THEN Return(Bot_handleTextRequest(s, userID))
       ELSE Return(Bot_sendCategories(s, userID))

Bot_handleMessage(m) ==
    LET userID == m.ev.user
        s == Bot_getState(m, userID)
    IN IF ~Running(s) THEN s
       ELSE IF m.ev.text = "/new"
       THEN Return(Bot_sendCategories(Bot_resetState(s, userID), userID))
       ELSE IF m.ev.text = "/text"
       THEN Return(Bot_handleTextRequest(s, userID))
       ELSE IF s.states[userID].WaitingFor = StateInitial
       THEN Return(Bot_sendCategories(s, userID))
       ELSE Return(s)

\* up to the CreateChatCompletion call: b.mu.Lock() and then getState,
\* which locks b.mu again
Bot_handleCategorySelection(m, userID, category) ==
    LET l == Lock(m)
        st == Bot_getState(l, userID)
        w == SetField(SetField(st, userID, "Category", category),
                      userID, "WaitingFor", StateTopic)
    IN Await(Request(Unlock(w), ChatCompletionRequest(topicsPrompt(category))),
             "topics_call")

\* up to the CreateChatCompletion call
Bot_handleTopicSelection(m, userID, topic) ==
    LET st == Bot_getState(m, userID)
        w == Unlock(SetField(Lock(st), userID, "Topic", topic))
    IN IF ~Running(w) THEN w
       ELSE Await(Request(w, ChatCompletionRequest(
                                 scriptPrompt(topic, w.states[userID].Category))),
                  "script_call")

\* the last statement of handleCallback and its return
Bot_answerCallback(m) == Return(Send(m, NewCallback(m.ev.id)))

Bot_handleCallback(m) ==
    LET userID == m.ev.user
        data == m.ev.data
        s == Bot_getState(m, userID)
    IN IF ~Running(s) THEN s
       ELSE IF s.states[userID].WaitingFor = StateCategory
       THEN Bot_answerCallback(Bot_handleCategorySelection(s, userID, data))
       ELSE IF s.states[userID].WaitingFor = StateTopic
       THEN Bot_answerCallback(Bot_handleTopicSelection(s, userID, data))
       ELSE Bot_answerCallback(s)

\* handleCategorySelection from the return of CreateChatCompletion on;
\* reply is the completion, err whether the call failed
Bot_topicsReturned(m, err, reply) ==
    LET userID == m.ev.user
        r == Resume(m)
    IN IF err THEN Bot_answerCallback(Bot_sendError(r, userID))
       ELSE Bot_answerCallback(Bot_sendTopics(r, userID, splitTopics(reply)))

\* generateAndSendAudio up to the CreateSpeech call
Bot_generateAndSendAudio(m, userID, text) ==
    Await(Request(m, CreateSpeechRequest(text)), "speech_call")

\* handleTopicSelection from the return of CreateChatCompletion on
Bot_scriptReturned(m, err, script) ==
    LET userID == m.ev.user
        r == Resume(m)
    IN IF err THEN Bot_answerCallback(Bot_sendError(r, userID))
       ELSE Bot_generateAndSendAudio(
                Unlock(SetField(Lock(r), userID, "ScriptText", script)), userID, script)

\* generateAndSendAudio from the return of CreateSpeech up to the upload:
\* os.WriteFile may fail before or after it created the file
Bot_speechReturned(m, outcome) ==
    LET userID == m.ev.user
        r == Resume(m)
    IN IF outcome \in {"speech_err", "read_err", "open_err"}
       THEN Bot_answerCallback(Bot_sendError(r, userID))
       ELSE IF outcome = "write_err"
       THEN Bot_answerCallback(Bot_sendError(CreateFile(r, userID), userID))
       ELSE Await(Send(CreateFile(r, userID), NewAudio(userID)), "upload")

\* b.tg.Send(audioMsg) returned (its result is dropped): the deferred
\* os.Remove and resp.Close run, and handleCallback goes on
Bot_audioSent(m) ==
    Bot_answerCallback(RemoveFile(Resume(m), m.ev.user))

(***************************************************************************)
(* main.go: the package-level dispatcher.                                  *)
(***************************************************************************)
main_sendCategories(m, userID) ==
    LET msg == NewMessage(userID, Str("Choose podcast category:"), <<Buttons(categories)>>)
        w == SetField(Lock(m), userID, "WaitingFor", StateCategory)
    IN Send(Unlock(w), msg)

\* the notice and the menu re-sent with the stored phase left as it is
main_sendError_keepsPhase(m, userID) ==
    Send(Send(m, NewMessage(userID, Str("Error generating content. Please try again."),
                            NoRows)),
         NewMessage(userID, Str("Choose podcast category:"), <<Buttons(categories)>>))

main_sendError(m, userID) ==
    LET msg == NewMessage(userID, Str("Error generating content. Please try again."), NoRows)
    IN main_sendCategories(Send(m, msg), userID)

\* a topic offer that fails unless all 5 expected topics are there
main_sendTopics_needsFive(m, userID, topics) ==
    LET buttons == Buttons(topics) IN
    IF Len(buttons) < 5 THEN Panic(m)
    ELSE Send(m, NewMessage(userID, Str("Choose a specific topic:"),
                            << SubSeq(buttons, 1, 3), SubSeq(buttons, 4, Len(buttons)) >>))

main_sendTopics(m, userID, topics) ==
    LET buttons == Buttons(topics) IN
    IF Cap(Len(buttons)) < 3 THEN Panic(m)
    ELSE Send(m, NewMessage(userID, Str("Choose a specific topic:"),
                            << SubSeq(buttons, 1, 3), SubSeq(buttons, 4, Len(buttons)) >>))

main_handleTextRequest(m, userID) ==
    LET s == Unlock(Lock(m)) IN
    IF ~Running(s) THEN s
    ELSE IF s.states[userID].ScriptText = ""
    THEN Send(s, NewMessage(userID,
                 Str("No script available. Please create a podcast first!"), NoRows))
    ELSE Send(s, NewMessage(userID, ScriptMessageText(s.states[userID].ScriptText), NoRows))

\* a reset that carries the old script over into the new session
main_newUserState_keepsScript(m, userID) ==
    LET l == Lock(m)
        c == IF Running(l)
             THEN [l EXCEPT !.states[userID] =
                       [NewUserState EXCEPT !.ScriptText = l.states[userID].ScriptText]]
             ELSE l
    IN Unlock(c)

\* the "/new" case: userStates[userID] = &UserState{WaitingFor: StateInitial}
main_newUserState(m, userID) ==
    LET l == Lock(m)
        c == IF Running(l) THEN [l EXCEPT !.states[userID] = NewUserState] ELSE l
    IN Unlock(c)

main_handleMessage(m) ==
    LET userID == m.ev.user
        l == Lock(m)
        c == IF Running(l) /\ l.states[userID] = Nil
             THEN [l EXCEPT !.states[userID] = NewUserState]
             ELSE l
        s == Unlock(c)
    IN IF ~Running(s) THEN s
       ELSE IF m.ev.text = "/new"
       THEN Return(main_sendCategories(main_newUserState(s, userID), userID))
       ELSE IF m.ev.text = "/text"
       THEN Return(main_handleTextRequest(s, userID))
       ELSE IF s.states[userID].WaitingFor = StateInitial
       THEN Return(main_sendCategories(s, userID))
       ELSE Return(s)

\* a category selection that also forgets the topic chosen before
main_handleCategorySelection_clearsTopic(m, userID, category) ==
    LET w == SetField(SetField(SetField(Lock(m), userID, "Category", category),
                               userID, "WaitingFor", StateTopic),
                      userID, "Topic", "")
    IN Await(Request(Unlock(w), ChatCompletionRequest(topicsPrompt(category))),
             "topics_call")

\* up to the CreateChatCompletion call
main_handleCategorySelection(m, userID, category) ==
    LET w == SetField(SetField(Lock(m), userID, "Category", category),
                      userID, "WaitingFor", StateTopic)
    IN Await(Request(Unlock(w), ChatCompletionRequest(topicsPrompt(category))),
             "topics_call")

\* up to the CreateChatCompletion call
main_handleTopicSelection(m, userID, topic) ==
    LET w == Unlock(SetField(Lock(m), userID, "Topic", topic))
    IN IF ~Running(w) THEN w
       ELSE Await(Request(w, ChatCompletionRequest(
                                 scriptPrompt(topic, w.states[userID].Category))),
                  "script_call")

\* the last statement of handleCallback and its return
main_answerCallback(m) == Return(Send(m, NewCallback(m.ev.id)))

\* state := userStates[userID] is nil for an unknown user, and
\* state.WaitingFor then dereferences it
main_handleCallback(m) ==
    LET userID == m.ev.user
        data == m.ev.data
        s == Unlock(Lock(m))
    IN IF ~Running(s) THEN s
       ELSE IF s.states[userID] = Nil THEN Panic(s)
       ELSE IF s.states[userID].WaitingFor = StateCategory
       THEN main_answerCallback(main_handleCategorySelection(s, userID, data))
       ELSE IF s.states[userID].WaitingFor = StateTopic
       THEN main_answerCallback(main_handleTopicSelection(s, userID, data))
       ELSE main_answerCallback(s)

\* handleCategorySelection from the return of CreateChatCompletion on
main_topicsReturned(m, err, reply) ==
    LET userID == m.ev.user
        r == Resume(m)
    IN IF err THEN main_answerCallback(main_sendError(r, userID))
       ELSE main_answerCallback(main_sendTopics(r, userID, splitTopics(reply)))

\* generateAndSendAudio up to the CreateSpeech call
main_generateAndSendAudio(m, userID, text) ==
    Await(Request(m, CreateSpeechRequest(text)), "speech_call")

\* the completion stored before err is looked at: a failed call stores ""
main_scriptReturned_storesFirst(m, err, script) ==
    LET userID == m.ev.user
        w == Unlock(SetField(Lock(Resume(m)), userID, "ScriptText", script))
    IN IF err THEN main_answerCallback(main_sendError(w, userID))
       ELSE main_generateAndSendAudio(w, userID, script)

\* handleTopicSelection from the return of CreateChatCompletion on
main_scriptReturned(m, err, script) ==
    LET userID == m.ev.user
        r == Resume(m)
    IN IF err THEN main_answerCallback(main_sendError(r, userID))
       ELSE main_generateAndSendAudio(
                Unlock(SetField(Lock(r), userID, "ScriptText", script)), userID, script)

\* generateAndSendAudio from the return of CreateSpeech up to the upload
main_speechReturned(m, outcome) ==
    LET userID == m.ev.user
        r == Resume(m)
    IN IF outcome \in {"speech_err", "read_err", "open_err"}
       THEN main_answerCallback(main_sendError(r, userID))
       ELSE IF outcome = "write_err"
       THEN main_answerCallback(main_sendError(CreateFile(r, userID), userID))
       ELSE Await(Send(CreateFile(r, userID), NewAudio(userID)), "upload")

\* bot.Send(audioMsg) returned: the deferred os.Remove and resp.Close run
main_audioSent(m) ==
    main_answerCallback(RemoveFile(Resume(m), m.ev.user))

(***************************************************************************)
(* The program: one goroutine ranging over the updates channel.            *)
(***************************************************************************)
Machine ==
    [states |-> states, mu |-> mu, pc |-> pc, ev |-> ev, out |-> out,
     calls |-> calls, files |-> files]

\* the program's variables after a step that leaves the machine as m
Becomes(m) ==
    /\ states' = m.states
    /\ mu' = m.mu
    /\ pc' = m.pc
    /\ ev' = m.ev
    /\ out' = m.out
    /\ calls' = m.calls
    /\ files' = m.files

\* machine m takes update e
Start(m, e) == [m EXCEPT !.pc = "run", !.ev = e, !.out = << >>, !.calls = << >>]

\* the loop takes the next update: the handler starts with its event
Take(e) == [Machine EXCEPT !.pc = "run", !.ev = e, !.out = << >>, !.calls = << >>]

Waiting == pc = "idle"

NoResult == [svc |-> "", ok |-> TRUE, script |-> "", reply |-> << >>, outcome |-> ""]

\* the users, and the scripts returned, in a run of the given scope
ScopeUsers == IF scope = "all" THEN Users ELSE {1}

ScopeScripts == IF scope = "lengths" THEN Scripts \cup LongScripts ELSE Scripts

\* the callback data of the buttons of the messages in o sent to userID
ButtonData(o, userID) ==
    UNION { UNION { { o[i].rows[r][k].data : k \in DOMAIN o[i].rows[r] } :
                    r \in DOMAIN o[i].rows } :
            i \in { j \in DOMAIN o : o[j].chat = userID } }

\* what a step records beside the program: the buttons offered so far,
\* and the twin as the step leaves it
Records(tw) ==
    /\ scope' = scope
    /\ offered' = IF scope = "offered"
                  THEN [u \in Users |-> offered[u] \cup ButtonData(out', u)]
                  ELSE offered
    /\ twin' = IF scope = "twin" THEN tw ELSE twin

\* the program as started, by the implementations and for the scope given
InitIn(impls, sc) ==
    /\ impl \in impls
    /\ states = [u \in Users |-> Nil]
    /\ mu = FALSE
    /\ pc = "idle"
    /\ ev = NoEvent
    /\ out = << >>
    /\ calls = << >>
    /\ files = {}
    /\ pre = Nil
    /\ res = << >>
    /\ scope = sc
    /\ offered = [u \in Users |-> {}]
    /\ twin = [states |-> [u \in Users |-> Nil], mu |-> FALSE, pc |-> "idle",
               ev |-> NoEvent, out |-> << >>, calls |-> << >>, files |-> {}]

Init == InitIn({"main", "bot"}, "all")

\* update.Message != nil
Message(userID, text) ==
    LET e == [kind |-> "message", user |-> userID, text |-> text, data |-> "", id |-> ""] IN
    /\ Waiting
    /\ Becomes(IF impl = "main" THEN main_handleMessage(Take(e))
               ELSE Bot_handleMessage(Take(e)))
    /\ pre' = states[userID]
    /\ res' = << >>
    /\ UNCHANGED impl
    /\ Records(IF twin.pc = "idle" THEN Bot_handleMessage(Start(twin, e)) ELSE twin)

\* update.CallbackQuery != nil
Callback(userID, data, id) ==
    LET e == [kind |-> "callback", user |-> userID, text |-> "", data |-> data, id |-> id] IN
    /\ Waiting
    /\ scope = "offered" => data \in offered[userID]
    /\ Becomes(IF impl = "main" THEN main_handleCallback(Take(e))
               ELSE Bot_handleCallback(Take(e)))
    /\ pre' = states[userID]
    /\ res' = << >>
    /\ UNCHANGED impl
    /\ Records(IF twin.pc = "idle" THEN Bot_handleCallback(Start(twin, e)) ELSE twin)

\* CreateChatCompletion for the topics prompt returns an error
TopicsFailed ==
    /\ pc = "topics_call"
    /\ Becomes(IF impl = "main" THEN main_topicsReturned(Machine, TRUE, << >>)
               ELSE Bot_topicsReturned(Machine, TRUE, << >>))
    /\ res' = Append(res, [NoResult EXCEPT !.svc = "chat", !.ok = FALSE])
    /\ UNCHANGED <<impl, pre>>
    /\ Records(IF twin.pc = "topics_call" THEN Bot_topicsReturned(twin, TRUE, << >>) ELSE twin)

\* CreateChatCompletion for the topics prompt returns a completion
TopicsReturned(reply) ==
    /\ pc = "topics_call"
    /\ Becomes(IF impl = "main" THEN main_topicsReturned(Machine, FALSE, reply)
               ELSE Bot_topicsReturned(Machine, FALSE, reply))
    /\ res' = Append(res, [NoResult EXCEPT !.svc = "chat", !.reply = reply])
    /\ UNCHANGED <<impl, pre>>
    /\ Records(IF twin.pc = "topics_call" THEN Bot_topicsReturned(twin, FALSE, reply) ELSE twin)

\* CreateChatCompletion for the script prompt returns an error
ScriptFailed ==
    /\ pc = "script_call"
    /\ Becomes(IF impl = "main" THEN main_scriptReturned(Machine, TRUE, "")
               ELSE Bot_scriptReturned(Machine, TRUE, ""))
    /\ res' = Append(res, [NoResult EXCEPT !.svc = "chat", !.ok = FALSE])
    /\ UNCHANGED <<impl, pre>>
    /\ Records(IF twin.pc = "script_call" THEN Bot_scriptReturned(twin, TRUE, "") ELSE twin)

\* CreateChatCompletion for the script prompt returns a completion
ScriptReturned(script) ==
    /\ pc = "script_call"
    /\ Becomes(IF impl = "main" THEN main_scriptReturned(Machine, FALSE, script)
               ELSE Bot_scriptReturned(Machine, FALSE, script))
    /\ res' = Append(res, [NoResult EXCEPT !.svc = "chat", !.script = script])
    /\ UNCHANGED <<impl, pre>>
    /\ Records(IF twin.pc = "script_call" THEN Bot_scriptReturned(twin, FALSE, script) ELSE twin)

\* CreateSpeech returns; io.ReadAll and os.WriteFile follow
SpeechReturned(outcome) ==
    /\ pc = "speech_call"
    /\ Becomes(IF impl = "main" THEN main_speechReturned(Machine, outcome)
               ELSE Bot_speechReturned(Machine, outcome))
    /\ res' = Append(res, [NoResult EXCEPT !.svc = "speech",
                                           !.ok = (outcome # "speech_err"),
                                           !.outcome = outcome])
    /\ UNCHANGED <<impl, pre>>
    /\ Records(IF twin.pc = "speech_call" THEN Bot_speechReturned(twin, outcome) ELSE twin)

\* the upload of the audio file returns, with or without an error
AudioSent(ok) ==
    /\ pc = "upload"
    /\ Becomes(IF impl = "main" THEN main_audioSent(Machine) ELSE Bot_audioSent(Machine))
    /\ res' = Append(res, [NoResult EXCEPT !.svc = "upload", !.ok = ok])
    /\ UNCHANGED <<impl, pre>>
    /\ Records(IF twin.pc = "upload" THEN Bot_audioSent(twin) ELSE twin)

\* the handler returned: the loop waits for the next update, and the
\* record of what the handler did is dropped
Loop ==
    /\ pc = "returned"
    /\ pc' = "idle"
    /\ ev' = NoEvent
    /\ out' = << >>
    /\ calls' = << >>
    /\ pre' = Nil
    /\ res' = << >>
    /\ UNCHANGED <<impl, states, mu, files>>
    /\ Records(IF twin.pc = "returned"
               THEN [twin EXCEPT !.pc = "idle", !.ev = NoEvent, !.out = << >>, !.calls = << >>]
               ELSE twin)

Next ==
    \/ Loop
    \/ \E userID \in ScopeUsers, text \in Texts : Message(userID, text)
    \/ \E userID \in ScopeUsers, data \in Labels, id \in QueryIDs : Callback(userID, data, id)
    \/ TopicsFailed
    \/ \E reply \in TopicReplies : TopicsReturned(reply)
    \/ ScriptFailed
    \/ \E script \in ScopeScripts : ScriptReturned(script)
    \/ \E outcome \in SpeechOutcomes : SpeechReturned(outcome)
    \/ \E ok \in BOOLEAN : AudioSent(ok)

Spec == Init /\ [][Next]_vars

\* one user, with scripts of the lengths around maxLength
TextSpec == InitIn({"main", "bot"}, "lengths") /\ [][Next]_vars

\* one user, who presses only buttons the program has sent to that user
OfferedSpec == InitIn({"main", "bot"}, "offered") /\ [][Next]_vars

\* main.go, with the Bot as its twin
EqSpec == InitIn({"main"}, "twin") /\ [][Next]_vars

\* every external call returns: a pending return is eventually taken
FairSpec ==
    /\ Spec
    /\ WF_vars(TopicsFailed \/ \E reply \in TopicReplies : TopicsReturned(reply))
    /\ WF_vars(ScriptFailed \/ \E script \in Scripts : ScriptReturned(script))
    /\ WF_vars(\E outcome \in SpeechOutcomes : SpeechReturned(outcome))
    /\ WF_vars(\E ok \in BOOLEAN : AudioSent(ok))
    /\ WF_vars(Loop)

(***************************************************************************)
(* Properties.                                                             *)
(***************************************************************************)
\* the session of the user whose update is being handled
Cur == states[ev.user]

\* the fields a lookup of s shows: a missing session reads as a fresh one
View(s) == IF s = Nil THEN NewUserState ELSE s

\* the handler of the current update will execute nothing more
Ended == pc \in {"returned", "blocked", "panic"}

\* the acknowledgments sent for the current callback query
Acks == { i \in DOMAIN out : out[i].op = "callback" }

CategoryMenu(userID) ==
    NewMessage(userID, Str("Choose podcast category:"),
               << [i \in 1..5 |-> [text |-> categories[i], data |-> categories[i]]] >>)

ErrorNotice(userID) ==
    NewMessage(userID, Str("Error generating content. Please try again."), NoRows)

NoScriptNotice(userID) ==
    NewMessage(userID, Str("No script available. Please create a podcast first!"), NoRows)

\* the current update is a selection that found the session at phase w
SelectionAt(w) == ev.kind = "callback" /\ pre # Nil /\ pre.WaitingFor = w

\* C1: every selection event gets exactly one acknowledgment, carrying its
\* identifier: never two while it is handled, and one once its handler has
\* executed all it ever will (it returned, or it can never go on).
C1_ExactlyOneAck ==
    ev.kind = "callback" =>
        /\ \A i \in Acks : out[i].id = ev.id
        /\ Cardinality(Acks) <= 1
        /\ Ended => Cardinality(Acks) = 1

\* C2: the Bot's handler of every update gets to its return: it never waits
\* on a mutex nobody will unlock, and never dies in a panic.
C2_HandlerCompletes == impl = "bot" => pc \notin {"blocked", "panic"}

\* C3: after /new the session is at phase Category with category, topic
\* and script empty, and the category menu is the one message sent.
C3_NewSession ==
    (ev.kind = "message" /\ ev.text = "/new") =>
        /\ pc = "returned"
        /\ Cur = [Category |-> "", Topic |-> "",
                  WaitingFor |-> StateCategory, ScriptText |-> ""]
        /\ out = <<CategoryMenu(ev.user)>>

C3_Witness ==
    /\ ev.kind = "message" /\ ev.text = "/new" /\ pc = "returned"
    /\ pre # Nil /\ pre.WaitingFor = StateTopic
    /\ pre.Category # "" /\ pre.Topic # "" /\ pre.ScriptText # ""

\* C4: a selection at phase Category has category = label and phase = Topic
\* written by the time the handler is at (or stuck before) the topic call,
\* and still so when it returns after a successful call.
C4_CategorySelection ==
    SelectionAt(StateCategory) =>
        /\ pc \in {"topics_call", "blocked"} =>
               (Cur.Category = ev.data /\ Cur.WaitingFor = StateTopic)
        /\ (pc = "returned" /\ Len(res) = 1 /\ res[1].ok) =>
               (Cur.Category = ev.data /\ Cur.WaitingFor = StateTopic)

C4_Witness ==
    /\ SelectionAt(StateCategory) /\ pc = "returned" /\ Len(res) = 1 /\ res[1].ok
    /\ ev.data # "" /\ pre.Category # ev.data
    /\ Cur.Category = ev.data /\ Cur.WaitingFor = StateTopic

\* the script call of the current topic selection returned a completion
ScriptSucceeded == Len(res) >= 1 /\ res[1].svc = "chat" /\ res[1].ok

\* C5: a selection at phase Topic sets topic to the label; once the script
\* call has succeeded scriptText is the returned script, and that is not
\* empty; after the audio went out the phase is still Topic.
C5_TopicSelection ==
    SelectionAt(StateTopic) =>
        /\ Cur.Topic = ev.data
        /\ ScriptSucceeded => (Cur.ScriptText = res[1].script /\ Cur.ScriptText # "")
        /\ (pc = "returned" /\ Len(res) = 3) => Cur.WaitingFor = StateTopic

\* C6 as claimed: after a failed topic call the notice and the menu went
\* out and category, topic and script are what they were before the event.
C6_FailedTopicsCallRestores ==
    (SelectionAt(StateCategory) /\ pc = "returned" /\ Len(res) = 1 /\ ~res[1].ok) =>
        /\ out = <<ErrorNotice(ev.user), CategoryMenu(ev.user), NewCallback(ev.id)>>
        /\ Cur.Category = pre.Category
        /\ Cur.Topic = pre.Topic
        /\ Cur.ScriptText = pre.ScriptText

\* C6 as amended: after a failed topic call the notice and the menu went
\* out, topic and script are what they were before the event, category is
\* the selected label (written before the call, not taken back), and the
\* phase is Category again.
C6_FailedTopicsCallKeepsLabel ==
    (SelectionAt(StateCategory) /\ pc = "returned" /\ Len(res) = 1 /\ ~res[1].ok) =>
        /\ out = <<ErrorNotice(ev.user), CategoryMenu(ev.user), NewCallback(ev.id)>>
        /\ Cur.Category = ev.data
        /\ Cur.Topic = pre.Topic
        /\ Cur.ScriptText = pre.ScriptText
        /\ Cur.WaitingFor = StateCategory

C6_Witness ==
    /\ SelectionAt(StateCategory) /\ pc = "returned" /\ Len(res) = 1 /\ ~res[1].ok
    /\ pre.Category # ev.data /\ pre.Topic # "" /\ pre.ScriptText # ""
    /\ Cur.Category = ev.data

\* the script call, or after it the speech call, of the current topic
\* selection failed, and the handler returned
TopicSelectionFailed ==
    /\ SelectionAt(StateTopic) /\ pc = "returned"
    /\ \/ Len(res) = 1 /\ ~res[1].ok
       \/ Len(res) = 2 /\ res[2].svc = "speech" /\ ~res[2].ok

\* C7 as claimed: after a failed script or speech call the notice and the
\* menu went out, and the phase is still Topic.
C7_FailedGenerationKeepsTopicPhase ==
    TopicSelectionFailed =>
        /\ \E i \in DOMAIN out :
               /\ out[i] = ErrorNotice(ev.user)
               /\ i < Len(out) /\ out[i + 1] = CategoryMenu(ev.user)
        /\ Cur.WaitingFor = StateTopic

\* C7 as amended: after a failed script or speech call the notice and the
\* menu went out, and the phase is Category (sendCategories sets it).
C7_FailedGenerationResetsPhase ==
    TopicSelectionFailed =>
        /\ \E i \in DOMAIN out :
               /\ out[i] = ErrorNotice(ev.user)
               /\ i < Len(out) /\ out[i + 1] = CategoryMenu(ev.user)
        /\ Cur.WaitingFor = StateCategory

C7_Witness ==
    /\ TopicSelectionFailed /\ Len(res) = 2
    /\ Cur.WaitingFor = StateCategory /\ Cur.ScriptText = res[1].script

\* the script stored for a user, none for a user without a session
ScriptOf(s) == View(s).ScriptText

\* C8: a step changes a user's scriptText only by storing, whole, the
\* completion a successful script call just returned for that user, or by
\* emptying it on that user's /new; no other step touches it.
C8_ScriptWrittenOnlyOnSuccess ==
    [][\A u \in Users :
          ScriptOf(states'[u]) # ScriptOf(states[u]) =>
              \/ /\ pc = "script_call" /\ ev.user = u /\ pc' = "speech_call"
                 /\ res' = Append(res, [NoResult EXCEPT !.svc = "chat",
                                          !.script = ScriptOf(states'[u])])
              \/ /\ ev'.kind = "message" /\ ev'.text = "/new" /\ ev'.user = u
                 /\ ScriptOf(states'[u]) = ""]_vars

C8_Witness ==
    /\ pc = "speech_call" /\ pre # Nil /\ pre.ScriptText = "script"
    /\ Cur.ScriptText = "long script" /\ res[1].script = "long script"

\* C9: a session at phase Topic has a category, and every script request
\* issued names a topic.
C9_CategoryAndTopicPresent ==
    /\ \A u \in Users :
           (states[u] # Nil /\ states[u].WaitingFor = StateTopic) =>
               states[u].Category # ""
    /\ \A i \in DOMAIN calls :
           calls[i].prompt.kind = "script" => calls[i].prompt.topic # ""

\* C10: /text returns having changed no field of the session and having
\* issued no request; it sent one message: the "no script" notice when the
\* script is empty, and else a plain text message that carries the script.
C10_TextRequestReadOnly ==
    (ev.kind = "message" /\ ev.text = "/text") =>
        /\ pc = "returned"
        /\ Cur = View(pre)
        /\ calls = << >>
        /\ Len(out) = 1
        /\ IF Cur.ScriptText = "" THEN out[1] = NoScriptNotice(ev.user)
           ELSE /\ out[1].op = "message" /\ out[1].chat = ev.user
                /\ out[1].rows = NoRows
                /\ out[1].text.base = Cur.ScriptText
                /\ out[1].text.cut => out[1].text.keep > 0

C10_Witness ==
    /\ ev.kind = "message" /\ ev.text = "/text" /\ pc = "returned"
    /\ pre # Nil /\ pre.WaitingFor = StateTopic /\ pre.ScriptText = "script"
    /\ out[1].text = Str("script")


\* C12: a selection that finds the session at phase Initial, or finds no
\* session at all, is ignored: the handler returns, the session is a fresh
\* one at phase Initial, no request was issued and the acknowledgment is
\* the only operation sent.
C12_SelectionAtInitialIgnored ==
    (ev.kind = "callback" /\ View(pre).WaitingFor = StateInitial) =>
        /\ pc = "returned"
        /\ Cur = NewUserState
        /\ calls = << >>
        /\ out = <<NewCallback(ev.id)>>

\* C13: free text at phase Initial (or from a user without a session)
\* sends the category menu and moves the phase to Category; at any other
\* phase it changes nothing and sends nothing; it never issues a request.
C13_FreeText ==
    (ev.kind = "message" /\ ev.text \notin {"/new", "/text"}) =>
        /\ pc = "returned"
        /\ calls = << >>
        /\ IF View(pre).WaitingFor = StateInitial
           THEN /\ out = <<CategoryMenu(ev.user)>>
                /\ Cur = [View(pre) EXCEPT !.WaitingFor = StateCategory]
           ELSE /\ out = << >>
                /\ Cur = pre

C13_Witness ==
    /\ ev.kind = "message" /\ ev.text = "hello" /\ pc = "returned"
    /\ pre # Nil /\ pre.WaitingFor = StateTopic /\ pre.ScriptText # ""
    /\ out = << >> /\ Cur = pre

\* the topic call of the current category selection returned a completion
TopicsSucceeded == SelectionAt(StateCategory) /\ Len(res) = 1 /\ res[1].ok

\* the number of comma-separated segments of a completion
Segments(reply) == 1 + Cardinality({ i \in DOMAIN reply : reply[i] = "," })

\* the messages sent that offer topics
TopicOffers == { i \in DOMAIN out : out[i].text = Str("Choose a specific topic:") }

\* C14 as claimed: a completion of n segments is offered as a row of the
\* first 3 and a row of the other n-3; with n below 5 nothing is offered.
C14_FewerThanFiveFails ==
    TopicsSucceeded =>
        LET n == Segments(res[1].reply) IN
        IF n < 5 THEN TopicOffers = {}
        ELSE /\ TopicOffers = {1}
             /\ Len(out[1].rows[1]) = 3 /\ Len(out[1].rows[2]) = n - 3

\* C14 as amended: a completion of n segments is offered as a row of the
\* first 3 and a row of the other n-3 whenever n is at least 3; with n
\* below 3 the handler panics having sent nothing.
C14_FewerThanThreeFails ==
    TopicsSucceeded =>
        LET n == Segments(res[1].reply) IN
        IF n < 3 THEN pc = "panic" /\ out = << >>
        ELSE /\ pc = "returned"
             /\ TopicOffers = {1}
             /\ out[1].chat = ev.user
             /\ Len(out[1].rows) = 2
             /\ Len(out[1].rows[1]) = 3 /\ Len(out[1].rows[2]) = n - 3
             /\ out[1].rows[1] \o out[1].rows[2] = Buttons(splitTopics(res[1].reply))

C14_Witness ==
    /\ TopicsSucceeded /\ Segments(res[1].reply) = 4 /\ pc = "returned"
    /\ Len(out[1].rows[1]) = 3 /\ Len(out[1].rows[2]) = 1

\* C15: once a handler has executed all it ever will, a message has issued
\* no request; a category selection one chat request, for topics of the
\* label; a topic selection one chat request, for a script on the label, and
\* after it, exactly when it succeeded, one speech request whose input is
\* the stored script; a selection at phase Initial none.
C15_CallCounts ==
    Ended =>
        /\ ev.kind = "message" => calls = << >>
        /\ (ev.kind = "callback" /\ View(pre).WaitingFor = StateInitial) => calls = << >>
        /\ SelectionAt(StateCategory) =>
               calls = <<ChatCompletionRequest(topicsPrompt(ev.data))>>
        /\ SelectionAt(StateTopic) =>
               /\ Len(calls) >= 1
               /\ calls[1] = ChatCompletionRequest(scriptPrompt(ev.data, pre.Category))
               /\ IF res[1].ok
                  THEN calls = <<calls[1], CreateSpeechRequest(Cur.ScriptText)>>
                  ELSE Len(calls) = 1

\* C16: when the handler of a topic selection has returned, the user's
\* audio file is not on disk.
C16_AudioFileRemoved ==
    (SelectionAt(StateTopic) /\ pc = "returned") => ev.user \notin files

\* the user whose update a step handles
Actor == IF pc = "idle" THEN ev'.user ELSE ev.user

\* C18: a step that handles an update of one user leaves every other
\* user's session and audio file as they are and sends nothing to that
\* user; and no step removes a session.
C18_UserIsolation ==
    [][/\ \A b \in Users \ {Actor} :
             /\ states'[b] = states[b]
             /\ (b \in files') = (b \in files)
             /\ \A i \in DOMAIN out' : out'[i].chat # b
       /\ \A u \in Users : states[u] # Nil => states'[u] # Nil]_vars

C18_Witness ==
    /\ pc = "returned" /\ ev.user = 1 /\ SelectionAt(StateTopic) /\ Len(res) = 3
    /\ states[2] # Nil /\ states[2].ScriptText = "script" /\ 2 \in files
    /\ states[1].ScriptText = "long script" /\ 1 \notin files

\* C11: the text /text sends for a stored script of n bytes is the script
\* itself, of length n, when n <= 4000, and otherwise its first 4000 bytes
\* followed by the marker, of length 4000 plus the marker's; in both cases
\* its length is at most 4096.
C11_SentTextLength ==
    (ev.kind = "message" /\ ev.text = "/text" /\ Ended /\ Cur.ScriptText # "") =>
        LET n == TextLen(Cur.ScriptText) IN
        /\ pc = "returned"
        /\ Len(out) = 1 /\ out[1].op = "message"
        /\ IF n <= 4000
           THEN out[1].text = Str(Cur.ScriptText) /\ StrLen(out[1].text) = n
           ELSE /\ out[1].text.cut /\ out[1].text.base = Cur.ScriptText
                /\ out[1].text.keep = 4000
                /\ out[1].text.tail = truncationMarker
                /\ StrLen(out[1].text) = 4000 + TextLen(truncationMarker)
        /\ StrLen(out[1].text) <= 4096

C11_Witness ==
    /\ ev.text = "/text" /\ pc = "returned"
    /\ TextLen(Cur.ScriptText) = 4097
    /\ out[1].text.cut /\ StrLen(out[1].text) = 4016

\* C17: when users press only buttons the program has sent them, the
\* category of every session is empty or one of the menu's categories.
C17_CategoryFromMenu ==
    \A u \in Users :
        states[u] # Nil =>
            states[u].Category \in {""} \cup { categories[i] : i \in DOMAIN categories }

\* C19: when main.go has executed all it will of an update, the Bot fed
\* the same updates and call results is at the same point, every user's
\* session reads the same in both and both have sent the same operations.
C19_SameBehaviour ==
    (scope = "twin" /\ Ended) =>
        /\ twin.pc = pc
        /\ \A u \in Users : View(twin.states[u]) = View(states[u])
        /\ twin.out = out

====
